---------------------------- MODULE Spec2Model ----------------------------
(***************************************************************************)
(* A model of fscotto/fileserver: the HTTP handlers of                     *)
(* internal/api/file_handler.go (LoadFile, GetFile, GetFiles, DeleteFile)  *)
(* running concurrently, one per request, over three shared resources:     *)
(*   - the documents table (internal/service/document_service.go, the      *)
(*     schema of CREATE TABLE documents and the gorm model Document),      *)
(*   - the object store bucket "documents" (minio_service.go),             *)
(*   - the local upload directory os.TempDir()/fileserver/uploads/.        *)
(* Every handler is cut into steps at the calls that touch a shared        *)
(* resource; the code between two such calls is local to the request and   *)
(* belongs to the step of the call that follows it.                        *)
(***************************************************************************)
EXTENDS Naturals, Integers, Sequences, FiniteSets, TLC

(***************************************************************************)
(* Bounds of the model.                                                    *)
(***************************************************************************)
\* requests served concurrently (goroutines of net/http in flight)
NumSlots == 2
\* requests accepted over a whole run
MaxRequests == 3
\* uploads among them
MaxUploads == 2
\* the clock time.Now().Unix() takes the values 0..MaxClock
MaxClock == 1
\* failures of the stores and of the local disk injected over a whole run
MaxFaults == 1
\* the values of uuid.New() when it may repeat one (SpecCollide)
NumUUIDs == 2

Slots == 1..NumSlots

\* Strings are sequences of characters, so that ILIKE can be computed.
\* The bytes of an upload: two different contents; "" is the empty file.
Contents == {"X", "Y"}
Empty == ""
\* header.Filename of an upload
FileNames == {<<"a", "B">>, <<"a", "_">>}
\* the searchQuery parameter of GET /files
Terms == {<<>>, <<"b">>, <<"_">>}

\* idFile path values: a UUID is a number >= 1 (the n-th distinct value that
\* uuid.New() has returned), NoSuchUUID is a well-formed UUID that uuid.New()
\* never returns, BadUUID a string uuid.Parse rejects.
NoSuchUUID == 0
BadUUID == -1

\* http status codes; NoStatus: the handler has written nothing yet
NoStatus == 0
StatusOK == 200
StatusBadRequest == 400
StatusNotFound == 404
StatusConflict == 409
StatusInternalServerError == 500

VARIABLES
    documents,   \* the table documents: a sequence of rows, id = position
    bucket,      \* whether the bucket defaultBucketName exists
    blobs,       \* the objects of the bucket: key (idFile) -> bytes
    files,       \* the upload directory: path -> inode
    inodes,      \* the open or linked inodes: inode -> bytes
    h,           \* per slot, the request being served: its locals
    last,        \* the request that has just returned: its locals and response
    now,         \* time.Now().Unix()
    nreq,        \* requests accepted so far
    nupload,     \* uploads accepted so far
    faults,      \* failures injected so far
    sent,        \* history: idFile -> bytes of the upload answered 200 with it
    deleted200   \* history: the idFiles whose DELETE was answered 200

vars == <<documents, bucket, blobs, files, inodes, h, last, now, nreq,
          nupload, faults, sent, deleted200>>

(***************************************************************************)
(* The locals of one handler invocation.                                   *)
(*   op          LoadFile | GetFile | GetFiles | DeleteFile                *)
(*   serial      the number of the request, in the order of acceptance     *)
(*   pc          the step the handler is about to take                     *)
(*   Filename, bytes   the uploaded part (header.Filename, its content)    *)
(*   idParam     r.PathValue("idFile")                                     *)
(*   searchQuery r.URL.Query().Get("searchQuery")                          *)
(*   fingerprint, idFile   LoadFile's locals                               *)
(*   path        uploadDir + newFileName                                   *)
(*   out         the inode of the file os.Create returned (0: none)        *)
(*   rfile       the inode of the file UploadFileToMinIO opened            *)
(*   document    the row id GetDocument returned (0: none)                 *)
(*   seen        the number of rows the duplicate check looked at          *)
(*   status      the status the handler wrote (NoStatus: none yet)         *)
(*   body        the bytes GetFile served                                  *)
(*   list        the row ids GetFiles encoded                              *)
(*   ret         the return statement the handler left by                  *)
(***************************************************************************)
NoPath == [t |-> 0, file |-> <<>>]

Idle ==
    [op |-> "none", serial |-> 0, pc |-> "idle", Filename |-> <<>>, bytes |-> Empty,
     idParam |-> NoSuchUUID, searchQuery |-> <<>>, fingerprint |-> 0,
     idFile |-> 0, path |-> NoPath, out |-> 0, rfile |-> 0, document |-> 0,
     seen |-> 0, status |-> NoStatus, body |-> Empty, list |-> <<>>,
     ret |-> "none"]

Init ==
    /\ documents = <<>>
    /\ bucket = FALSE
    /\ blobs = <<>>
    /\ files = <<>>
    /\ inodes = <<>>
    /\ h = [s \in Slots |-> Idle]
    /\ last = Idle
    /\ now = 0
    /\ nreq = 0
    /\ nupload = 0
    /\ faults = 0
    /\ sent = <<>>
    /\ deleted200 = {}

(***************************************************************************)
(* net/http: a handler that returns without writing a status is answered   *)
(* 200; http.Error after a status has been written does not change it.     *)
(***************************************************************************)
Response(r) == IF r.status = NoStatus THEN StatusOK ELSE r.status

WriteHeader(r, code) == IF r.status = NoStatus THEN code ELSE r.status

\* the slot that takes the next request: the lowest one not serving any
Free(s) == h[s].pc = "idle"

Accepts(s) ==
    /\ nreq < MaxRequests
    /\ Free(s)
    /\ \A q \in Slots : q < s => ~Free(q)

\* the outcomes of a call that can fail: TRUE = it worked
Outcomes == IF faults < MaxFaults THEN {TRUE, FALSE} ELSE {TRUE}

Fault(ok) == faults' = IF ok THEN faults ELSE faults + 1

(***************************************************************************)
(* uuid.New(): a random value. By the contract of a UUID it differs from   *)
(* every value returned before: FreshUUID(r, n) is the n-th value that the *)
(* request r draws, different for every request and every n. Without that  *)
(* contract it is any value, and UUIDs is a universe small enough for two  *)
(* draws to collide.                                                       *)
(***************************************************************************)
FreshUUID(r, n) == {2 * (r.serial - 1) + n}

UUIDs == 1..NumUUIDs

\* idFile.String(), the text of a UUID, which is also the objectName of a
\* retrieval: a different string for every UUID, and none of FileNames
UUIDString(idFile) == [k \in 1..idFile |-> "u"]

(***************************************************************************)
(* The local upload directory.                                             *)
(***************************************************************************)
Min(S) == CHOOSE n \in S : \A m \in S : n <= m

\* the inode of the file os.Create makes at a path that has none: numbered
\* by the request that makes it (a request makes one file at most)
NewInode(r) == r.serial

\* f with x mapped to v (x added to the domain when it is not in it)
Put(f, x, v) == [y \in (DOMAIN f) \cup {x} |-> IF y = x THEN v ELSE f[y]]

\* a removal that removes nothing
DropNothing(f, x) == f

\* f without x
Drop(f, x) == [y \in (DOMAIN f) \ {x} |-> f[y]]

\* the inodes still linked by a path of fs or held open by a handler of hs
Live(fs, hs) ==
    {fs[p] : p \in DOMAIN fs}
        \cup {hs[s].out : s \in Slots} \cup {hs[s].rfile : s \in Slots}

\* the kernel frees an inode that is neither linked nor open
Reclaim(ino, fs, hs) == [i \in (DOMAIN ino) \cap Live(fs, hs) |-> ino[i]]

\* the handler of slot s goes on with the locals r
Continue(s, r) ==
    /\ h' = [h EXCEPT ![s] = r]
    /\ last' = Idle

\* the handler of slot s, with the locals r, leaves by the return statement
\* ret: its files are closed, its response is sent and the slot is free
Return(s, r, ret) ==
    /\ h' = [h EXCEPT ![s] = Idle]
    /\ last' = [r EXCEPT !.pc = "done", !.ret = ret, !.out = 0, !.rfile = 0,
                         !.path = NoPath, !.serial = 0]

(***************************************************************************)
(* The documents table. A row is [name, idFile, fingerprint, deleted];     *)
(* deleted stands for deleted_at IS NOT NULL. gorm adds                     *)
(* "deleted_at IS NULL" to every query on a model with a gorm.DeletedAt    *)
(* field, and turns Delete into an UPDATE that sets deleted_at.            *)
(***************************************************************************)
RowIds == 1..Len(documents)

\* the lookup without its condition on id_file: the first row of the table
GetDocumentFirst(idFile) == IF RowIds = {} THEN 0 ELSE 1

\* the lookup without the deleted_at scope: soft-deleted rows are found too
GetDocumentUnscoped(idFile) ==
    LET hit == {i \in RowIds : documents[i].idFile = idFile}
    IN  IF hit = {} THEN 0 ELSE Min(hit)

\* SELECT ... WHERE deleted_at IS NULL AND id_file = ? LIMIT 1: the row id, 0
\* for gorm.ErrRecordNotFound
GetDocument(idFile) ==
    LET hit == {i \in RowIds : ~documents[i].deleted /\ documents[i].idFile = idFile}
    IN  IF hit = {} THEN 0 ELSE Min(hit)

\* SELECT ... WHERE fingerprint = ? AND deleted_at IS NULL LIMIT 1
GetDocumentByFingerprint(fingerprint) ==
    LET hit == {i \in RowIds :
                    ~documents[i].deleted /\ documents[i].fingerprint = fingerprint}
    IN  IF hit = {} THEN 0 ELSE Min(hit)

\* uniqueness held over the rows that are not soft-deleted only
UniqueAmongLive(row) ==
    \E i \in RowIds : /\ ~documents[i].deleted
                      /\ \/ documents[i].idFile = row.idFile
                         \/ documents[i].fingerprint = row.fingerprint

\* id_file UUID UNIQUE, fingerprint TEXT UNIQUE: over all rows, deleted or not
UniqueViolation(row) ==
    \E i \in RowIds : \/ documents[i].idFile = row.idFile
                      \/ documents[i].fingerprint = row.fingerprint

\* an insert that also clears the deleted marks of the table
AddDocumentReviving(row) ==
    Append([i \in RowIds |-> [documents[i] EXCEPT !.deleted = FALSE]], row)

\* INSERT INTO documents: the table after the insert
AddDocument(row) == Append(documents, row)

\* DELETE FROM documents WHERE id = ?: the row is removed
DeleteHard(id) ==
    SubSeq(documents, 1, id - 1) \o SubSeq(documents, id + 1, Len(documents))

\* an update that matches the row and sets nothing
DeleteNothing(id) == documents

\* UPDATE documents SET deleted_at = now WHERE id = ? AND deleted_at IS NULL
Delete(id) == [documents EXCEPT ![id].deleted = TRUE]

(***************************************************************************)
(* LoadFile: POST /file.                                                   *)
(***************************************************************************)
\* the file names that are the text of the identifier of a row: a client may
\* name its upload so
UUIDNames == {UUIDString(documents[i].idFile) : i \in RowIds}

\* the multipart forms a client may send: one that does not parse, one with
\* no part named "file", and the well-formed ones
UploadRequests ==
    {[form |-> "malformed", Filename |-> <<>>, bytes |-> Empty],
     [form |-> "nofile", Filename |-> <<>>, bytes |-> Empty]}
        \cup [form : {"ok"}, Filename : FileNames \cup UUIDNames,
               bytes : Contents]

\* r.ParseMultipartForm(maxMemory) with maxMemory = 10 << 20
MaxMemory == 10485760

\* the length of an uploaded part: "Y" stands for a part of more than
\* maxMemory bytes, "X" for a short one
Size(bytes) ==
    IF bytes = "Y" THEN MaxMemory + 1 ELSE IF bytes = Empty THEN 0 ELSE 1

\* r.ParseMultipartForm(maxMemory): maxMemory bounds what is kept in memory,
\* and the rest of the parts is kept in temporary files; the call fails on a
\* body that is no multipart form
ParseMultipartForm(req) ==
    [err |-> req.form = "malformed",
     inMemory |-> Size(req.bytes) <= MaxMemory]

\* a return without the call of http.Error
ErrorUnwritten(r, code) == r

\* http.Error(w, msg, code)
Error(r, code) == [r EXCEPT !.status = WriteHeader(r, code)]

\* lines 133-184: the request is accepted and parsed, the upload directory is
\* made, and os.Create truncates the file at <time>_<Filename>, or makes it
LoadFile_Create(s) ==
    /\ Accepts(s)
    /\ nupload < MaxUploads
    /\ nreq' = nreq + 1
    /\ nupload' = nupload + 1
    /\ \E req \in UploadRequests, ok \in Outcomes :
          LET r == [Idle EXCEPT !.op = "LoadFile", !.serial = nreq + 1,
                                !.Filename = req.Filename, !.bytes = req.bytes]
              path == [t |-> now, file |-> req.Filename]
              ino == IF path \in DOMAIN files THEN files[path] ELSE NewInode(r)
          IN  /\ Fault(ok \/ req.form # "ok")
              /\ IF req.form = "ok" /\ ok
                 THEN /\ files' = Put(files, path, ino)
                      /\ inodes' = Put(inodes, ino, Empty)
                      /\ Continue(s, [r EXCEPT !.pc = "copy", !.path = path,
                                               !.out = ino])
                 ELSE /\ UNCHANGED <<files, inodes>>
                      /\ IF ParseMultipartForm(req).err
                         THEN Return(s, Error(r, StatusBadRequest), "parse")
                         ELSE IF req.form = "nofile"
                         THEN Return(s, Error(r, StatusInternalServerError), "formfile")
                         ELSE Return(s, Error(r, StatusInternalServerError), "create")
    /\ UNCHANGED <<documents, bucket, blobs, now, sent, deleted200>>

\* lines 186-191: io.Copy(out, file)
LoadFile_Copy(s) ==
    /\ h[s].op = "LoadFile" /\ h[s].pc = "copy"
    /\ \E ok \in Outcomes :
          /\ Fault(ok)
          /\ IF ok
             THEN /\ inodes' = Put(inodes, h[s].out, h[s].bytes)
                  /\ Continue(s, [h[s] EXCEPT !.pc = "check"])
             ELSE /\ UNCHANGED inodes
                  /\ Continue(s, [Error(h[s], StatusInternalServerError)
                                    EXCEPT !.pc = "cleanup", !.ret = "copy"])
    /\ UNCHANGED <<documents, bucket, blobs, files, now, nreq, sent,
                   deleted200, nupload>>

\* lines 193-206: the fingerprint is uuid.New().String(), drawn from G; the
\* upload is refused only when the lookup returns a row and no error
LoadFile_Check(s, G) ==
    /\ h[s].op = "LoadFile" /\ h[s].pc = "check"
    /\ \E fingerprint \in G, ok \in Outcomes :
          LET r == [h[s] EXCEPT !.fingerprint = fingerprint,
                                !.seen = Len(documents)]
              err == ~ok \/ GetDocumentByFingerprint(fingerprint) = 0
          IN  /\ Fault(ok)
              /\ IF err
                 THEN Continue(s, [r EXCEPT !.pc = "open"])
                 ELSE Continue(s, [Error(r, StatusConflict)
                                     EXCEPT !.pc = "cleanup", !.ret = "duplicate"])
    /\ UNCHANGED <<documents, bucket, blobs, files, inodes, now, nreq, sent,
                   deleted200, nupload>>

\* lines 208-210 and UploadFileToMinIO lines 43-51: idFile is uuid.New(), drawn
\* from G; os.Open(filePath) opens whatever file is at the path now
LoadFile_Open(s, G) ==
    /\ h[s].op = "LoadFile" /\ h[s].pc = "open"
    /\ \E idFile \in G, ok \in Outcomes :
          LET r == [h[s] EXCEPT !.idFile = idFile]
          IN  /\ Fault(ok)
              /\ IF ok /\ h[s].path \in DOMAIN files
                 THEN Continue(s, [r EXCEPT !.pc = "bucket",
                                            !.rfile = files[h[s].path]])
                 ELSE Continue(s, [Error(r, StatusInternalServerError)
                                     EXCEPT !.pc = "cleanup", !.ret = "open"])
    /\ UNCHANGED <<documents, bucket, blobs, files, inodes, now, nreq, sent,
                   deleted200, nupload>>

\* the error of UploadFileToMinIO is dropped, and LoadFile goes on to insert
UploadFailureIgnored(s, ret) ==
    /\ Continue(s, [h[s] EXCEPT !.pc = "insert", !.rfile = 0])
    /\ inodes' = Reclaim(inodes, files, h')

\* UploadFileToMinIO is called again after it has failed
UploadRetried(s, ret) ==
    /\ Continue(s, h[s])
    /\ inodes' = inodes

\* UploadFileToMinIO has failed at the step ret: its file is closed, and
\* LoadFile answers 500 (lines 211-214)
UploadFailed(s, ret) ==
    /\ Continue(s, [Error(h[s], StatusInternalServerError)
                      EXCEPT !.pc = "cleanup", !.ret = ret, !.rfile = 0])
    /\ inodes' = Reclaim(inodes, files, h')

\* createBucketIfNotExists lines 79-83: config.MinIO.BucketExists
LoadFile_BucketExists(s) ==
    /\ h[s].op = "LoadFile" /\ h[s].pc = "bucket"
    /\ \E ok \in Outcomes :
          /\ Fault(ok)
          /\ IF ok
             THEN /\ Continue(s, [h[s] EXCEPT !.pc = IF bucket THEN "put"
                                                     ELSE "makebucket"])
                  /\ UNCHANGED inodes
             ELSE UploadFailed(s, "bucket")
    /\ UNCHANGED <<documents, bucket, blobs, files, now, nreq, sent,
                   deleted200, nupload>>

\* createBucketIfNotExists lines 86-95: config.MinIO.MakeBucket, which fails on
\* a bucket that exists
LoadFile_MakeBucket(s) ==
    /\ h[s].op = "LoadFile" /\ h[s].pc = "makebucket"
    /\ \E ok \in Outcomes :
          /\ Fault(ok)
          /\ IF ok /\ ~bucket
             THEN /\ bucket' = TRUE
                  /\ Continue(s, [h[s] EXCEPT !.pc = "put"])
                  /\ UNCHANGED inodes
             ELSE /\ UNCHANGED bucket
                  /\ UploadFailed(s, "bucket")
    /\ UNCHANGED <<documents, blobs, files, now, nreq, sent, deleted200, nupload>>

\* UploadFileToMinIO lines 58-65: config.MinIO.PutObject streams the opened file
\* to the key idFile, replacing an object that has the key; the file is closed
LoadFile_Put(s) ==
    /\ h[s].op = "LoadFile" /\ h[s].pc = "put"
    /\ \E ok \in Outcomes :
          /\ Fault(ok)
          /\ IF ok /\ bucket
             THEN /\ blobs' = Put(blobs, h[s].idFile, inodes[h[s].rfile])
                  /\ Continue(s, [h[s] EXCEPT !.pc = "insert", !.rfile = 0])
                  /\ inodes' = Reclaim(inodes, files, h')
             ELSE /\ UNCHANGED blobs
                  /\ UploadFailed(s, "put")
    /\ UNCHANGED <<documents, bucket, files, now, nreq, sent, deleted200, nupload>>

\* lines 216-231: service.AddDocument, then the success message
LoadFile_Insert(s) ==
    /\ h[s].op = "LoadFile" /\ h[s].pc = "insert"
    /\ \E ok \in Outcomes :
          LET row == [name |-> h[s].Filename, idFile |-> h[s].idFile,
                      fingerprint |-> h[s].fingerprint, deleted |-> FALSE]
          IN  /\ Fault(ok)
              /\ IF ok /\ ~UniqueViolation(row)
                 THEN /\ documents' = AddDocument(row)
                      /\ sent' = Put(sent, h[s].idFile, h[s].bytes)
                      /\ Continue(s, [h[s] EXCEPT !.pc = "cleanup", !.ret = "ok",
                                                  !.status = StatusOK])
                 ELSE /\ UNCHANGED <<documents, sent>>
                      /\ Continue(s, [Error(h[s], StatusInternalServerError)
                                        EXCEPT !.pc = "cleanup", !.ret = "insert"])
    /\ UNCHANGED <<bucket, blobs, files, inodes, now, nreq, deleted200, nupload>>

\* the deferred function of lines 176-184 and cleanup, lines 235-249: out is
\* closed and the file at the path is removed; an error (no file at the path,
\* or os.Remove fails) is reported by http.Error
LoadFile_Cleanup(s) ==
    /\ h[s].op = "LoadFile" /\ h[s].pc = "cleanup"
    /\ \E ok \in Outcomes :
          LET removed == ok /\ h[s].path \in DOMAIN files
          IN  /\ Fault(ok)
              /\ files' = IF removed THEN Drop(files, h[s].path) ELSE files
              /\ Return(s, IF removed THEN h[s]
                           ELSE Error(h[s], StatusInternalServerError), h[s].ret)
              /\ inodes' = Reclaim(inodes, files', h')
    /\ UNCHANGED <<documents, bucket, blobs, now, nreq, sent, deleted200, nupload>>

(***************************************************************************)
(* GetFile: GET /file/{idFile}.                                            *)
(***************************************************************************)
\* the identifiers a client knows: those of the rows (GET /files shows them),
\* a well-formed one that names nothing, and a malformed one
IdParams == {documents[i].idFile : i \in RowIds} \cup {NoSuchUUID, BadUUID}

\* lines 56-75: the request is accepted, the identifier parsed and looked up
GetFile_Lookup(s) ==
    /\ Accepts(s)
    /\ nreq' = nreq + 1
    /\ \E idParam \in IdParams, ok \in Outcomes :
          LET r == [Idle EXCEPT !.op = "GetFile", !.serial = nreq + 1,
                                !.idParam = idParam]
              document == IF ok THEN GetDocument(idParam) ELSE 0
          IN  /\ Fault(ok \/ idParam = BadUUID)
              /\ IF idParam = BadUUID
                 THEN Return(s, Error(r, StatusBadRequest), "parse")
                 ELSE IF document = 0
                 THEN Return(s, Error(r, StatusNotFound), "lookup")
                 ELSE Continue(s, [r EXCEPT !.pc = "get", !.document = document])
    /\ UNCHANGED <<documents, bucket, blobs, files, inodes, now, sent,
                   deleted200, nupload>>

\* the fetch that waits until no upload is in flight
GetFile_GetWaiting(s) ==
    /\ h[s].op = "GetFile" /\ h[s].pc = "get"
    /\ \A q \in Slots : h[q].op # "LoadFile"
    /\ \E ok \in Outcomes :
          /\ Fault(ok)
          /\ IF ok THEN Continue(s, [h[s] EXCEPT !.pc = "create"])
                   ELSE Return(s, h[s], "get")
    /\ UNCHANGED <<documents, bucket, blobs, files, inodes, now, nreq,
                   sent, deleted200, nupload>>

\* lines 77-82 and GetFileFromMinIO: config.MinIO.GetObject; on an error the
\* handler returns and writes nothing
GetFile_Get(s) ==
    /\ h[s].op = "GetFile" /\ h[s].pc = "get"
    /\ \E ok \in Outcomes :
          /\ Fault(ok)
          /\ IF ok THEN Continue(s, [h[s] EXCEPT !.pc = "create"])
                   ELSE Return(s, h[s], "get")
    /\ UNCHANGED <<documents, bucket, blobs, files, inodes, now, nreq,
                   sent, deleted200, nupload>>

\* lines 84-104: os.MkdirAll, and os.Create of <time>_<objectName>
GetFile_Create(s) ==
    /\ h[s].op = "GetFile" /\ h[s].pc = "create"
    /\ \E ok \in Outcomes :
          LET path == [t |-> now, file |-> UUIDString(h[s].idParam)]
              ino == IF path \in DOMAIN files THEN files[path] ELSE NewInode(h[s])
          IN  /\ Fault(ok)
              /\ IF ok
                 THEN /\ files' = Put(files, path, ino)
                      /\ inodes' = Put(inodes, ino, Empty)
                      /\ Continue(s, [h[s] EXCEPT !.pc = "copy", !.path = path,
                                                  !.out = ino])
                 ELSE /\ UNCHANGED <<files, inodes>>
                      /\ Return(s, Error(h[s], StatusInternalServerError), "create")
    /\ UNCHANGED <<documents, bucket, blobs, now, nreq, sent, deleted200, nupload>>

\* lines 106-111: io.Copy(file, object) reads the object; on an error (the
\* store fails, or has no such key) the handler returns and writes nothing
GetFile_Copy(s) ==
    /\ h[s].op = "GetFile" /\ h[s].pc = "copy"
    /\ \E ok \in Outcomes :
          /\ Fault(ok)
          /\ IF ok /\ h[s].idParam \in DOMAIN blobs
             THEN /\ inodes' = Put(inodes, h[s].out, blobs[h[s].idParam])
                  /\ Continue(s, [h[s] EXCEPT !.pc = "serve"])
             ELSE /\ Return(s, h[s], "copy")
                  /\ inodes' = Reclaim(inodes, files, h')
    /\ UNCHANGED <<documents, bucket, blobs, files, now, nreq, sent,
                   deleted200, nupload>>

\* lines 113-129: file.Stat, then http.ServeContent seeks to the start of the
\* file and sends what the file holds now
GetFile_Serve(s) ==
    /\ h[s].op = "GetFile" /\ h[s].pc = "serve"
    /\ \E ok \in Outcomes :
          /\ Fault(ok)
          /\ IF ok
             THEN Return(s, [h[s] EXCEPT !.status = StatusOK,
                                         !.body = inodes[h[s].out]], "ok")
             ELSE Return(s, Error(h[s], StatusInternalServerError), "stat")
          /\ inodes' = Reclaim(inodes, files, h')
    /\ UNCHANGED <<documents, bucket, blobs, files, now, nreq, sent,
                   deleted200, nupload>>

(***************************************************************************)
(* GetFiles: GET /files?searchQuery=.                                      *)
(***************************************************************************)
\* lower(c), over the characters of FileNames and Terms
Lower(c) == IF c = "B" THEN "b" ELSE c

\* PostgreSQL's s ILIKE p: % matches any sequence of characters, _ matches any
\* one character, any other character matches itself in either case
RECURSIVE ILike(_, _)
ILike(s, p) ==
    IF p = <<>> THEN s = <<>>
    ELSE IF Head(p) = "%"
    THEN ILike(s, Tail(p)) \/ (s # <<>> /\ ILike(Tail(s), p))
    ELSE /\ s # <<>>
         /\ (Head(p) = "_" \/ Lower(Head(s)) = Lower(Head(p)))
         /\ ILike(Tail(s), Tail(p))

\* service.GetFiles: WHERE deleted_at IS NULL AND name ILIKE ?, the row ids in
\* the order of the table
GetFiles(searchQuery) ==
    SelectSeq([i \in RowIds |-> i],
              LAMBDA i : ~documents[i].deleted /\ ILike(documents[i].name, searchQuery))

\* the listing that also makes the bucket
GetFilesMakingBucket(s) ==
    /\ Accepts(s)
    /\ nreq' = nreq + 1
    /\ bucket' = TRUE
    /\ \E term \in Terms :
          Return(s, [Idle EXCEPT !.op = "GetFiles", !.searchQuery = term,
                                 !.status = StatusOK,
                                 !.list = GetFiles(<<"%">> \o term \o <<"%">>)],
                 "ok")
    /\ UNCHANGED <<documents, blobs, files, inodes, now, sent, deleted200,
                   nupload, faults>>

\* lines 25-53: the whole handler, which makes one query
GetFilesHandler(s) ==
    /\ Accepts(s)
    /\ nreq' = nreq + 1
    /\ \E term \in Terms, ok \in Outcomes :
          LET r == [Idle EXCEPT !.op = "GetFiles", !.serial = nreq + 1,
                                !.searchQuery = term]
              searchQuery == IF term = <<>> THEN <<"%">>
                             ELSE <<"%">> \o term \o <<"%">>
          IN  /\ Fault(ok)
              /\ IF ok
                 THEN Return(s, [r EXCEPT !.status = StatusOK,
                                          !.list = GetFiles(searchQuery)], "ok")
                 ELSE Return(s, Error(r, StatusInternalServerError), "query")
    /\ UNCHANGED <<documents, bucket, blobs, files, inodes, now, sent,
                   deleted200, nupload>>

(***************************************************************************)
(* DeleteFile: DELETE /file/{idFile}.                                      *)
(***************************************************************************)
\* lines 252-271: the request is accepted, the identifier parsed and looked up
DeleteFile_Lookup(s) ==
    /\ Accepts(s)
    /\ nreq' = nreq + 1
    /\ \E idParam \in IdParams, ok \in Outcomes :
          LET r == [Idle EXCEPT !.op = "DeleteFile", !.serial = nreq + 1,
                                !.idParam = idParam]
              document == IF ok THEN GetDocument(idParam) ELSE 0
          IN  /\ Fault(ok \/ idParam = BadUUID)
              /\ IF idParam = BadUUID
                 THEN Return(s, Error(r, StatusBadRequest), "parse")
                 ELSE IF document = 0
                 THEN Return(s, Error(r, StatusNotFound), "lookup")
                 ELSE Continue(s, [r EXCEPT !.pc = "delete", !.document = document])
    /\ UNCHANGED <<documents, bucket, blobs, files, inodes, now, sent,
                   deleted200, nupload>>

\* the deletion that also calls service.DeleteFileFromMinIO on the object
DeleteFile_DeleteObject(s) ==
    /\ h[s].op = "DeleteFile" /\ h[s].pc = "delete"
    /\ documents' = Delete(h[s].document)
    /\ blobs' = Drop(blobs, h[s].idParam)
    /\ deleted200' = deleted200 \cup {h[s].idParam}
    /\ Return(s, [h[s] EXCEPT !.status = StatusOK], "ok")
    /\ UNCHANGED <<bucket, files, inodes, now, nreq, sent, nupload, faults>>

\* lines 273-282: config.DB.Delete(&document), then the confirmation
DeleteFile_Delete(s) ==
    /\ h[s].op = "DeleteFile" /\ h[s].pc = "delete"
    /\ \E ok \in Outcomes :
          /\ Fault(ok)
          /\ IF ok
             THEN /\ documents' = Delete(h[s].document)
                  /\ deleted200' = deleted200 \cup {h[s].idParam}
                  /\ Return(s, [h[s] EXCEPT !.status = StatusOK], "ok")
             ELSE /\ UNCHANGED <<documents, deleted200>>
                  /\ Return(s, Error(h[s], StatusInternalServerError), "delete")
    /\ UNCHANGED <<bucket, blobs, files, inodes, now, nreq, sent, nupload>>

(***************************************************************************)
(* The clock, and the specifications.                                      *)
(***************************************************************************)
Tick ==
    /\ now < MaxClock
    /\ now' = now + 1
    /\ last' = Idle
    /\ UNCHANGED <<documents, bucket, blobs, files, inodes, h, nreq, faults,
                   sent, deleted200, nupload>>

\* the steps that draw no UUID
Step(s) ==
    \/ LoadFile_Create(s)
    \/ LoadFile_Copy(s)
    \/ LoadFile_BucketExists(s)
    \/ LoadFile_MakeBucket(s)
    \/ LoadFile_Put(s)
    \/ LoadFile_Insert(s)
    \/ LoadFile_Cleanup(s)
    \/ GetFile_Lookup(s)
    \/ GetFile_Get(s)
    \/ GetFile_Create(s)
    \/ GetFile_Copy(s)
    \/ GetFile_Serve(s)
    \/ GetFilesHandler(s)
    \/ DeleteFile_Lookup(s)
    \/ DeleteFile_Delete(s)

\* uuid.New() keeps the contract of a UUID
Next ==
    \/ Tick
    \/ \E s \in Slots : Step(s) \/ LoadFile_Check(s, FreshUUID(h[s], 1))
                                \/ LoadFile_Open(s, FreshUUID(h[s], 2))

Spec == Init /\ [][Next]_vars

\* uuid.New() is only random: it may return a value it returned before
NextCollide ==
    \/ Tick
    \/ \E s \in Slots : Step(s) \/ LoadFile_Check(s, UUIDs)
                                \/ LoadFile_Open(s, UUIDs)

\* the stores and the disk do not fail
InitCollide ==
    /\ documents = <<>>
    /\ bucket = FALSE
    /\ blobs = <<>>
    /\ files = <<>>
    /\ inodes = <<>>
    /\ h = [s \in Slots |-> Idle]
    /\ last = Idle
    /\ now = 0
    /\ nreq = 0
    /\ nupload = 0
    /\ faults = MaxFaults
    /\ sent = <<>>
    /\ deleted200 = {}

SpecCollide == InitCollide /\ [][NextCollide]_vars

\* the next step of the request in flight in slot s
Advance(s) ==
    /\ ~Free(s)
    /\ \/ Step(s)
       \/ LoadFile_Check(s, FreshUUID(h[s], 1))
       \/ LoadFile_Open(s, FreshUUID(h[s], 2))

\* net/http runs every request in a goroutine of its own, and every call to
\* a store or to the disk returns: a handler that can take a step takes it
SpecFair == Spec /\ \A s \in Slots : WF_vars(Advance(s))

(***************************************************************************)
(* Properties of the server, and the vocabulary they are stated in.         *)
(***************************************************************************)
\* the bytes that were uploaded under the identifier of row i
Uploaded(i) == sent[documents[i].idFile]

\* a row that is not soft-deleted carries the identifier
Visible(idFile) ==
    \E i \in RowIds : ~documents[i].deleted /\ documents[i].idFile = idFile

\* a document that is not soft-deleted holds the bytes b
DuplicateOf(b) == \E i \in RowIds : ~documents[i].deleted /\ Uploaded(i) = b

\* this step is the duplicate check of the upload in slot s
ChecksDuplicate(s) ==
    h[s].op = "LoadFile" /\ h[s].pc = "check" /\ h'[s].pc # "check"

\* C1: an upload of bytes that a non-deleted document already holds is
\* answered 409 at the duplicate check, which writes no object and no row.
C1_DuplicateContentRefused ==
    [][\A s \in Slots :
          ChecksDuplicate(s) /\ DuplicateOf(h[s].bytes)
              => /\ h'[s].status = StatusConflict
                 /\ h'[s].pc = "cleanup"
                 /\ blobs' = blobs
                 /\ documents' = documents]_vars

\* C2: the fingerprint is a function of the uploaded bytes, and an injective
\* one: two documents have the same fingerprint exactly when they were
\* uploaded with the same bytes.
C2_FingerprintOfBytes ==
    \A i, j \in RowIds :
        (Uploaded(i) = Uploaded(j))
            <=> (documents[i].fingerprint = documents[j].fingerprint)

\* C3: a retrieval answered 200, of an identifier an upload was answered 200
\* with, sends the bytes of that upload (here: even when no call has failed).
C3_RetrievalReturnsUpload ==
    (/\ last.op = "GetFile"
     /\ Response(last) = StatusOK
     /\ last.idParam \in DOMAIN sent
     /\ faults = 0)
        => last.body = sent[last.idParam]

\* this step accepts a GET /file/{idFile} that stays in flight in slot s
GetFileGoesOn(s) == h[s].pc = "idle" /\ h'[s].op = "GetFile"

\* this step accepts a GET /file/{idFile} and answers it
GetFileAnswered == nreq' = nreq + 1 /\ last'.op = "GetFile"

\* C4: a retrieval of a well-formed identifier that no row carries, or only a
\* soft-deleted one, is answered 404 by the step that looks it up, and never
\* goes on to the object store.
C4_NotFoundWithoutFetch ==
    [][/\ \A s \in Slots : GetFileGoesOn(s) => Visible(h'[s].idParam)
       /\ (GetFileAnswered /\ last'.idParam # BadUUID /\ ~Visible(last'.idParam))
             => /\ last'.status = StatusNotFound
                /\ blobs' = blobs /\ files' = files]_vars

\* C4's case: a retrieval of the identifier of a soft-deleted row was answered
C4_Witness ==
    /\ last.op = "GetFile"
    /\ last.ret = "lookup"
    /\ \E i \in RowIds : documents[i].deleted /\ documents[i].idFile = last.idParam

\* C5: a retrieval that found its row and then failed to fetch the object, at
\* the get call or while reading, is answered 404.
C5_FetchFailureIsNotFound ==
    (last.op = "GetFile" /\ last.ret \in {"get", "copy"})
        => last.status = StatusNotFound

\* the rows a listing answered with
Listed(r) == {r.list[k] : k \in 1..Len(r.list)}

\* C6: once a DELETE of an identifier has been answered 200, no listing made
\* afterwards holds its document, and every retrieval of it that arrives
\* afterwards is answered 404 by its lookup.
C6_DeletedIsGone ==
    [][/\ (last'.op = "GetFiles" /\ last'.status = StatusOK)
             => \A i \in Listed(last') : documents'[i].idFile \notin deleted200
       /\ \A s \in Slots : GetFileGoesOn(s) => h'[s].idParam \notin deleted200
       /\ (GetFileAnswered /\ last'.idParam \in deleted200)
             => last'.status = StatusNotFound]_vars

\* C6's case: a retrieval that arrived after the DELETE was answered
C6_Witness ==
    /\ last.op = "GetFile"
    /\ last.idParam \in deleted200
    /\ last.status = StatusNotFound

\* C7: no two rows, soft-deleted or not, carry the same fileId or the same
\* fingerprint; so the fingerprint of a soft-deleted row is never inserted
\* again.
C7_UniqueColumns ==
    \A i, j \in RowIds :
        i # j => /\ documents[i].idFile # documents[j].idFile
                 /\ documents[i].fingerprint # documents[j].fingerprint

\* C7's case: an insert was refused for the fingerprint of a soft-deleted row
C7_Witness ==
    /\ last.op = "LoadFile"
    /\ last.ret = "insert"
    /\ \E i \in RowIds : /\ documents[i].deleted
                         /\ documents[i].fingerprint = last.fingerprint
                         /\ documents[i].idFile # last.idFile

\* the row the upload r inserted, 0 if it inserted none
RowOf(r) ==
    LET own == {i \in RowIds : documents[i].idFile = r.idFile /\ r.ret = "ok"}
    IN  IF own = {} THEN 0 ELSE Min(own)

\* a row of the same bytes, of another upload, was inserted after the
\* duplicate check of the upload r and before r's own insert
LostRace(r) ==
    \E i \in RowIds : /\ i > r.seen
                      /\ RowOf(r) = 0 \/ i < RowOf(r)
                      /\ documents[i].idFile # r.idFile
                      /\ Uploaded(i) = r.bytes

\* C8: of two uploads of the same bytes that both pass the duplicate check,
\* the one that inserts second is refused by the database: it is answered
\* 500, and its object stays in the bucket with no row naming it (here: when
\* no call has failed for another reason).
C8_SecondInsertRefused ==
    (/\ last.op = "LoadFile"
     /\ last.ret \in {"ok", "insert"}
     /\ LostRace(last)
     /\ faults = 0)
        => /\ last.status = StatusInternalServerError
           /\ RowOf(last) = 0
           /\ last.idFile \in DOMAIN blobs

\* no other upload, answered or in flight, carries the bytes of the upload r
DistinctContent(r) ==
    /\ \A i \in RowIds : documents[i].idFile # r.idFile => Uploaded(i) # r.bytes
    /\ \A s \in Slots : h[s].op = "LoadFile" => h[s].bytes # r.bytes

\* C9: a well-formed upload of bytes no other upload carries is answered 200
\* and adds exactly one row, named by its filename (here: when no call to the
\* store, the database or the disk has failed for another reason, and the
\* upload has not lost the race to make the bucket).
C9_DistinctUploadSucceeds ==
    (/\ last.op = "LoadFile"
     /\ last.ret \notin {"parse", "formfile", "bucket"}
     /\ DistinctContent(last)
     /\ faults = 0)
        => /\ last.status = StatusOK
           /\ Cardinality({i \in RowIds : /\ documents[i].idFile = last.idFile
                                          /\ documents[i].name = last.Filename}) = 1

\* the word with every character in lower case
Fold(w) == [k \in 1..Len(w) |-> Lower(w[k])]

\* the term occurs in the name as a literal substring, in either case
Contains(name, term) ==
    \E k \in 0..(Len(name) - Len(term)) :
        SubSeq(Fold(name), k + 1, k + Len(term)) = Fold(term)

\* C10: a listing holds exactly the non-deleted documents whose name contains
\* the search term as a literal substring, in either case; all of them when
\* the term is empty.
C10_ListingIsLiteralMatch ==
    (last.op = "GetFiles" /\ last.status = StatusOK)
        => Listed(last) = {i \in RowIds : /\ ~documents[i].deleted
                                          /\ Contains(documents[i].name,
                                                      last.searchQuery)}

\* in this step the handler in slot s, in flight for the operation op, returns
Returns(s, op) == h[s].op = op /\ h'[s].pc = "idle"

C13_InsertFailureLeavesBlob ==
    (last.op = "LoadFile" /\ last.ret = "insert")
        => /\ last.status = StatusInternalServerError
           /\ last.idFile \in DOMAIN blobs
           /\ \A i \in RowIds : documents[i].idFile # last.idFile

\* C13's case: an upload has returned from a failed insert
C13_Witness ==
    /\ last.op = "LoadFile"
    /\ last.ret = "insert"
    /\ blobs # <<>>

\* C14: an upload of more than 10 MiB is answered 400 (here: when no call has
\* failed), and no document holds more than 10 MiB.
C14_OversizeRefused ==
    /\ (last.op = "LoadFile" /\ Size(last.bytes) > MaxMemory /\ faults = 0)
          => last.status = StatusBadRequest
    /\ \A i \in RowIds : Size(Uploaded(i)) <= MaxMemory

\* C15: no two requests in flight have the same staging path.
C15_StagingPathsDiffer ==
    \A s, q \in Slots :
        (s # q /\ h[s].path # NoPath /\ h[q].path # NoPath)
            => h[s].path # h[q].path

\* C16: a DELETE of an identifier that a row carries, soft-deleted or not, is
\* not answered 404 (here: when no call has failed).
C16_DeleteFindsDeletedRow ==
    (/\ last.op = "DeleteFile"
     /\ faults = 0
     /\ \E i \in RowIds : documents[i].idFile = last.idParam)
        => last.status # StatusNotFound

\* a row, soft-deleted or not, carries the identifier
HasRow(idFile) == \E i \in RowIds : documents[i].idFile = idFile

\* this step accepts a DELETE /file/{idFile} that stays in flight in slot s
DeleteGoesOn(s) == h[s].pc = "idle" /\ h'[s].op = "DeleteFile"

\* this step accepts a DELETE /file/{idFile} and answers it
DeleteAnswered == nreq' = nreq + 1 /\ last'.op = "DeleteFile"

\* C17: a DELETE of a well-formed identifier that no row carries is answered
\* 404 by its lookup and changes neither the table nor the bucket; a GET or
\* DELETE of a malformed identifier is answered 400 at once, with no call to
\* the database or the store (so none that could fail).
C17_NotFoundAndBadRequest ==
    [][/\ \A s \in Slots : DeleteGoesOn(s) => HasRow(h'[s].idParam)
       /\ \A s \in Slots : GetFileGoesOn(s) => h'[s].idParam # BadUUID
       /\ (/\ DeleteAnswered
           /\ last'.idParam # BadUUID
           /\ ~HasRow(last'.idParam))
             => /\ last'.status = StatusNotFound
                /\ UNCHANGED <<documents, bucket, blobs>>
       /\ ((DeleteAnswered \/ GetFileAnswered) /\ last'.idParam = BadUUID)
             => /\ last'.status = StatusBadRequest
                /\ UNCHANGED <<documents, bucket, blobs, faults>>]_vars

\* C17's case: a DELETE of an identifier of no row was answered, while the
\* table has rows
C17_Witness ==
    /\ last.op = "DeleteFile"
    /\ last.idParam = NoSuchUUID
    /\ last.status = StatusNotFound
    /\ documents # <<>>

\* this step accepts a GET /files and answers it
GetFilesAnswered == nreq' = nreq + 1 /\ last'.op = "GetFiles"

\* C18: a listing is answered by the step that accepts it, and that step
\* changes no row, nothing in the bucket and no file of the upload directory.
C18_ListingReadsOnly ==
    [][/\ \A s \in Slots : h'[s].op # "GetFiles"
       /\ GetFilesAnswered
             => UNCHANGED <<documents, bucket, blobs, files, inodes>>]_vars

\* C18's case: a listing was answered with documents
C18_Witness ==
    /\ last.op = "GetFiles"
    /\ last.status = StatusOK
    /\ last.list # <<>>

\* C19: the bucket holds an object under the idFile of every row, deleted or
\* not; an upload whose UploadFileToMinIO fails is answered 500 and inserts
\* no row.
C19_RowHasBlob ==
    /\ \A i \in RowIds : documents[i].idFile \in DOMAIN blobs
    /\ (last.op = "LoadFile" /\ last.ret \in {"open", "bucket", "put"})
          => /\ last.status = StatusInternalServerError
             /\ ~HasRow(last.idFile)

\* C19's case: an upload has returned from a failed PutObject, and the table
\* has a row
C19_Witness ==
    /\ last.op = "LoadFile"
    /\ last.ret = "put"
    /\ documents # <<>>

\* the bytes of the upload r are held by a soft-deleted document that its
\* duplicate check looked at, and by no document that is not deleted
OnlyDeletedHolds(r) ==
    /\ \E i \in 1..r.seen : documents[i].deleted /\ Uploaded(i) = r.bytes
    /\ \A j \in RowIds :
          (documents[j].idFile # r.idFile /\ Uploaded(j) = r.bytes)
              => documents[j].deleted

\* C20: an upload of bytes that only a soft-deleted document holds passes the
\* duplicate check and puts its object, and its insert is refused: it is
\* answered 500, and its object stays in the bucket with no row (here: when
\* no call has failed).
C20_DeletedDuplicateRefused ==
    (/\ last.op = "LoadFile"
     /\ last.ret \in {"ok", "insert"}
     /\ OnlyDeletedHolds(last)
     /\ faults = 0)
        => /\ last.status = StatusInternalServerError
           /\ ~HasRow(last.idFile)
           /\ last.idFile \in DOMAIN blobs

\* the order of the calls of GetFile: each pair is a step and the next one
GetFileOrder ==
    {<<"idle", "get">>, <<"get", "create">>, <<"create", "copy">>,
     <<"copy", "serve">>}

\* C21: a retrieval takes its steps in the order lookup, fetch, staging,
\* streaming; it answers 200 from the last step only; and a retrieval whose
\* fetch has failed has made no staging file.
C21_RetrievalInOrder ==
    [][\A s \in Slots :
          /\ (h'[s].op = "GetFile" /\ h'[s].pc # h[s].pc)
                => <<h[s].pc, h'[s].pc>> \in GetFileOrder
          /\ (Returns(s, "GetFile") /\ last'.status = StatusOK)
                => h[s].pc = "serve"
          /\ (Returns(s, "GetFile") /\ last'.ret \in {"get", "copy"})
                => h[s].path = NoPath]_vars

\* the order of the calls of LoadFile, when none fails
LoadFileOrder ==
    {<<"idle", "copy">>, <<"copy", "check">>, <<"check", "open">>,
     <<"open", "bucket">>, <<"bucket", "makebucket">>, <<"bucket", "put">>,
     <<"makebucket", "put">>, <<"put", "insert">>}

\* C22: an upload takes its steps in the order staging, duplicate check,
\* fileId, bucket, put, insert, or stops; and it stops when its duplicate
\* check has failed.
C22_UploadInOrder ==
    [][\A s \in Slots :
          /\ (h'[s].op = "LoadFile" /\ h'[s].pc # h[s].pc)
                => \/ <<h[s].pc, h'[s].pc>> \in LoadFileOrder
                   \/ h'[s].pc = "cleanup"
          /\ (ChecksDuplicate(s) /\ faults' # faults)
                => h'[s].pc = "cleanup"]_vars

\* C23: the bucket exists when an upload is about to put its object, and no
\* upload fails at the bucket when no call to the store has failed, also
\* when another upload has made the bucket first.
C23_BucketEnsureIdempotent ==
    /\ \A s \in Slots : (h[s].op = "LoadFile" /\ h[s].pc = "put") => bucket
    /\ (last.op = "LoadFile" /\ faults = 0) => last.ret # "bucket"

\* C24: no step removes a row; a step changes a row in its deleted mark only.
C24_RowsAreKept ==
    [][/\ Len(documents') >= Len(documents)
       /\ \A i \in RowIds :
             /\ documents'[i].name = documents[i].name
             /\ documents'[i].idFile = documents[i].idFile
             /\ documents'[i].fingerprint = documents[i].fingerprint]_vars

\* C24's case: a DELETE was answered 200, and its row is in the table with
\* the deleted mark
C24_Witness ==
    /\ last.op = "DeleteFile"
    /\ last.status = StatusOK
    /\ \E i \in RowIds : documents[i].idFile = last.idParam /\ documents[i].deleted

\* C25: no step clears the deleted mark of a row; so no listing holds a row
\* that has the mark, and no retrieval goes on with one.
C25_DeletedStaysDeleted ==
    [][/\ \A i \in RowIds :
             documents[i].deleted => (i <= Len(documents') /\ documents'[i].deleted)
       /\ (last'.op = "GetFiles" /\ last'.status = StatusOK)
             => \A i \in Listed(last') : ~documents'[i].deleted
       /\ \A s \in Slots :
             GetFileGoesOn(s) => ~documents[h'[s].document].deleted]_vars

\* C25's case: a listing of all documents was answered while the table has
\* a row with the deleted mark
C25_Witness ==
    /\ last.op = "GetFiles"
    /\ last.status = StatusOK
    /\ last.searchQuery = <<>>
    /\ \E i \in RowIds : documents[i].deleted /\ i \notin Listed(last)

\* C26: a retrieval answered 200 sends the uploaded bytes, also when another
\* retrieval of the same identifier runs at the same time (here: no call has
\* failed, the only upload is the one of the document, and the bucket holds
\* its bytes, so that the other requests are retrievals, listings, deletions).
C26_ConcurrentRetrievals ==
    (/\ last.op = "GetFile"
     /\ last.ret = "ok"
     /\ faults = 0
     /\ nupload = 1
     /\ last.idParam \in DOMAIN sent
     /\ blobs[last.idParam] = sent[last.idParam])
        => last.body = sent[last.idParam]

\* C27: an upload is answered 200 exactly when its insert succeeded: after a
\* 200 a row has its filename, idFile and fingerprint and the bucket holds
\* its bytes under the idFile; after another answer no row has its idFile
\* (here: when no call has failed).
C27_SuccessIffInserted ==
    (last.op = "LoadFile" /\ faults = 0)
        => IF Response(last) = StatusOK
           THEN /\ \E i \in RowIds : /\ documents[i].name = last.Filename
                                     /\ documents[i].idFile = last.idFile
                                     /\ documents[i].fingerprint = last.fingerprint
                /\ last.idFile \in DOMAIN blobs
                /\ blobs[last.idFile] = last.bytes
           ELSE ~HasRow(last.idFile)

\* how far the handler with the locals r has come: every call to a store is
\* made at one position
Rank(r) ==
    CASE r.pc = "idle" -> 0
      [] r.op = "LoadFile" /\ r.pc = "copy" -> 1
      [] r.op = "LoadFile" /\ r.pc = "check" -> 2
      [] r.op = "LoadFile" /\ r.pc = "open" -> 3
      [] r.op = "LoadFile" /\ r.pc = "bucket" -> 4
      [] r.op = "LoadFile" /\ r.pc = "makebucket" -> 5
      [] r.op = "LoadFile" /\ r.pc = "put" -> 6
      [] r.op = "LoadFile" /\ r.pc = "insert" -> 7
      [] r.op = "LoadFile" /\ r.pc = "cleanup" -> 8
      [] r.op = "GetFile" /\ r.pc = "get" -> 1
      [] r.op = "GetFile" /\ r.pc = "create" -> 2
      [] r.op = "GetFile" /\ r.pc = "copy" -> 3
      [] r.op = "GetFile" /\ r.pc = "serve" -> 4
      [] r.op = "DeleteFile" /\ r.pc = "delete" -> 1

\* the request of slot s moves on or returns
MovesOn(s) ==
    \/ h[s].pc # "idle" /\ h'[s].pc = "idle"
    \/ h'[s].pc # "idle" /\ h'[s].op = h[s].op /\ h'[s].serial = h[s].serial
                         /\ Rank(h'[s]) > Rank(h[s])

\* C28: nothing is retried: a request in flight only moves forward through
\* the positions of its handler, so it makes each call once at most; a call
\* that fails moves its request on or ends it; an object is put by the one
\* put of an upload, a row inserted by its one insert, and a row soft-deleted
\* by the one Delete of a deletion.
C28_NoRetry ==
    [][/\ \A s \in Slots :
             (h[s].pc # "idle" /\ h'[s] # h[s]) => MovesOn(s)
       /\ faults' # faults
             => \/ nreq' = nreq + 1
                \/ \E s \in Slots : MovesOn(s)
       /\ blobs' # blobs
             => \E s \in Slots : /\ h[s].op = "LoadFile" /\ h[s].pc = "put"
                                 /\ h'[s].pc = "insert"
       /\ Len(documents') > Len(documents)
             => \E s \in Slots : /\ h[s].op = "LoadFile" /\ h[s].pc = "insert"
                                 /\ h'[s].pc = "cleanup"
                                 /\ Len(documents') = Len(documents) + 1
       /\ (documents' # documents /\ Len(documents') = Len(documents))
             => \E s \in Slots : /\ h[s].op = "DeleteFile"
                                 /\ h[s].pc = "delete"
                                 /\ h'[s].pc = "idle"]_vars

\* an upload whose put has failed has returned, and left no object and no row
C28_Witness ==
    /\ last.op = "LoadFile"
    /\ last.ret = "put"
    /\ last.status = StatusInternalServerError
    /\ last.idFile \notin DOMAIN blobs
    /\ ~HasRow(last.idFile)

\* C29: a retrieval never loses its staged copy: when a retrieval that has
\* made its staging file returns, with 200 or after a later failure, the file
\* is still in the upload directory.
C29_StagedCopyIsKept ==
    [][\A s \in Slots :
          (Returns(s, "GetFile") /\ h[s].path # NoPath)
              => h[s].path \in DOMAIN files']_vars

\* C30: every request runs to its end on its own: a request in flight can
\* always take its next step, whatever the other requests are doing; when it
\* leaves, it leaves by one return with one status; and, when every call
\* returns, every request in flight returns in the end (its slot is free
\* again, at every time).
C30_RunsToCompletion ==
    /\ [](\A s \in Slots : ~Free(s) => ENABLED Advance(s))
    /\ [][\A s \in Slots :
             (~Free(s) /\ h'[s].pc = "idle")
                 => /\ last'.pc = "done"
                    /\ last'.op = h[s].op
                    /\ Response(last') \in {StatusOK, StatusBadRequest,
                          StatusNotFound, StatusConflict,
                          StatusInternalServerError}]_vars
    /\ \A s \in Slots : []<>Free(s)

\* a retrieval has returned while an upload is in flight
C30_Witness ==
    /\ last.pc = "done"
    /\ last.op = "GetFile"
    /\ \E s \in Slots : h[s].op = "LoadFile" /\ h[s].pc # "idle"

============================================================================
